---- MODULE Spec2Model ----
(***************************************************************************)
(* Model of plex-dance.py: the relocate / verify / restore transaction     *)
(* over a small filesystem, with asynchronous termination signals and the  *)
(* atexit hook.                                                            *)
(*                                                                         *)
(* A path is a sequence of characters (one-character strings); the fixed   *)
(* file names "tmp.plexdance", "lock" and "restore.log" are written as one *)
(* element each.  The filesystem is a function from the existing paths to  *)
(* nodes [t, c]: t is "dir" or "file", c identifies the content.           *)
(***************************************************************************)
EXTENDS Integers, Sequences, FiniteSets, TLC

\* ------------------------------------------------------------------ bounds
MaxEntries == 2     \* longest input (number of lines read)
MaxSignals == 2     \* termination signals delivered in one run
MaxFaults == 1      \* OS-level failures (rename, rmtree) injected in one run

\* ------------------------------------------------------------- constants
poll_interval == 5
max_filename_bytes == 255

\* ----------------------------------------------------------- path strings
S == "/"
NoPath == <<>>
TMPNAME == <<"tmp.plexdance">>
LOCKNAME == <<"lock">>
LOGNAME == <<"restore.log">>

Last(s) == s[Len(s)]

\* str.startswith
StartsWith(p, q) == Len(q) <= Len(p) /\ SubSeq(p, 1, Len(q)) = q

LastSlash(p) ==
    LET idx == {i \in 1..Len(p) : p[i] = S}
    IN  IF idx = {} THEN 0 ELSE CHOOSE i \in idx : \A j \in idx : j <= i

\* os.path.dirname / os.path.basename / os.path.join (paths without "//")
dirname(p) ==
    LET i == LastSlash(p)
    IN  IF i <= 1 THEN SubSeq(p, 1, i) ELSE SubSeq(p, 1, i - 1)

basename(p) == SubSeq(p, LastSlash(p) + 1, Len(p))

join(a, b) ==
    IF a = <<>> THEN b
    ELSE IF Last(a) = S THEN a \o b ELSE a \o <<S>> \o b

\* the AppleDouble companion of a directory: "._" + basename beside it
appledouble(p) == join(dirname(p), <<".", "_">> \o basename(p))

IsHidden(name) == Len(name) > 0 /\ name[1] = "."

\* ----------------------------------------------------------- path mapping
NoMapping == [present |-> FALSE, local_root |-> <<>>, plex_root |-> <<>>]

apply_path_mapping(path, mapping) ==
    IF ~mapping.present THEN path
    ELSE IF StartsWith(path, mapping.plex_root)
         THEN mapping.local_root
                \o SubSeq(path, Len(mapping.plex_root) + 1, Len(path))
         ELSE path

\* ------------------------------------------------------ staging file name
AlnumChars == {"a", "b", "c", "l", "p", "q", "x", "y", "z",
               "0", "1", "2", "3", "4", "5", "6", "7", "8", "9"}
TwoByteChars == {"e2"}     \* stands for a character of two UTF-8 bytes

CharBytes(c) == IF c \in TwoByteChars THEN 2 ELSE 1

RECURSIVE ByteLen(_)
ByteLen(s) == IF s = <<>> THEN 0 ELSE CharBytes(s[1]) + ByteLen(Tail(s))

Digit(d) == <<"0", "1", "2", "3", "4", "5", "6", "7", "8", "9">>[d + 1]

RECURSIVE IndexStr(_)
IndexStr(n) == IF n < 10 THEN <<Digit(n)>>
               ELSE IndexStr(n \div 10) \o <<Digit(n % 10)>>

safe_chars(s) ==
    [i \in 1..Len(s) |->
        IF s[i] \in AlnumChars \cup TwoByteChars \/ s[i] \in {"-", "_", ".", " "}
        THEN s[i] ELSE "_"]

RECURSIVE AsciiOnly(_)
AsciiOnly(s) ==
    IF s = <<>> THEN <<>>
    ELSE IF s[1] \in TwoByteChars THEN AsciiOnly(Tail(s))
         ELSE <<s[1]>> \o AsciiOnly(Tail(s))

truncate_utf8_safe(text, max_bytes) ==
    IF ByteLen(text) <= max_bytes THEN text
    ELSE LET fits == {n \in 1..Len(text) :
                        /\ ByteLen(SubSeq(text, 1, n)) <= max_bytes
                        /\ ByteLen(SubSeq(text, 1, n)) >= 1}
         IN  IF fits # {}
             THEN SubSeq(text, 1, CHOOSE n \in fits : \A m \in fits : m <= n)
             ELSE LET a == AsciiOnly(text)
                      \* a[:max_bytes]; a negative bound counts from the end
                      upto == IF max_bytes < 0 THEN Len(a) + max_bytes
                              ELSE max_bytes
                  IN  SubSeq(a, 1, IF upto < 0 THEN 0
                                   ELSE IF upto < Len(a) THEN upto
                                        ELSE Len(a))

unindexed_temp_name(index, artist, album, max_bytes) ==
    safe_chars(artist) \o <<"_">> \o safe_chars(album)

safe_temp_name(index, artist, album, max_bytes) ==
    LET ar == safe_chars(artist)
        al == safe_chars(album)
        base_name == IndexStr(index) \o <<"_">> \o ar \o <<"_">> \o al
        index_part == IndexStr(index) \o <<"_">>
        remaining_bytes == max_bytes - ByteLen(index_part) - 1
        artist_bytes == remaining_bytes \div 2
        album_bytes == remaining_bytes - artist_bytes
    IN  IF ByteLen(base_name) <= max_bytes THEN base_name
        ELSE index_part \o truncate_utf8_safe(ar, artist_bytes) \o <<"_">>
                \o truncate_utf8_safe(al, album_bytes)

\* -------------------------------------------------------------- filesystem
DirNode(c) == [t |-> "dir", c |-> c]
FileNode(c) == [t |-> "file", c |-> c]

Exists(fsys, p) == p \in DOMAIN fsys
IsDir(fsys, p) == p \in DOMAIN fsys /\ fsys[p].t = "dir"
IsFile(fsys, p) == p \in DOMAIN fsys /\ fsys[p].t = "file"

Under(p, d) == p # d /\ StartsWith(p, IF Last(d) = S THEN d ELSE d \o <<S>>)
Children(fsys, d) == {p \in DOMAIN fsys : p # d /\ dirname(p) = d}
listdir(fsys, d) == {basename(p) : p \in Children(fsys, d)}

Put(fsys, p, node) ==
    [q \in DOMAIN fsys \cup {p} |-> IF q = p THEN node ELSE fsys[q]]
Remove(fsys, ps) == [q \in DOMAIN fsys \ ps |-> fsys[q]]

RECURSIVE makedirs(_, _)
makedirs(fsys, d) ==
    IF d = <<>> \/ Exists(fsys, d) THEN fsys
    ELSE Put(makedirs(fsys, dirname(d)), d, DirNode(<<>>))

rmtree(fsys, d) == Remove(fsys, {p \in DOMAIN fsys : p = d \/ Under(p, d)})

\* the device of an existing path: every path at or below a mount point of
\* mnts is on device 2, everything else on device 1
st_dev(mnts, p) == IF \E m \in mnts : p = m \/ Under(p, m) THEN 2 ELSE 1

\* os.rename(src, dst) succeeds when src exists, the destination's parent is
\* an existing directory on the same device, and nothing is at dst
CanRename(fsys, mnts, src, dst) ==
    /\ Exists(fsys, src)
    /\ IsDir(fsys, dirname(dst))
    /\ ~Exists(fsys, dst)
    /\ st_dev(mnts, src) = st_dev(mnts, dirname(dst))

Rename(fsys, src, dst) ==
    LET moved == {p \in DOMAIN fsys : p = src \/ Under(p, src)}
        to(p) == dst \o SubSeq(p, Len(src) + 1, Len(p))
        from(q) == CHOOSE p \in moved : to(p) = q
    IN  [q \in (DOMAIN fsys \ moved) \cup {to(p) : p \in moved} |->
            IF q \in DOMAIN fsys \ moved THEN fsys[q] ELSE fsys[from(q)]]

always_same_filesystem(fsys, mnts, path1, path2, flt) == TRUE

RECURSIVE ExistingAncestor(_, _)
ExistingAncestor(fsys, p) ==
    IF Exists(fsys, p) THEN p
    ELSE IF dirname(p) = p THEN NoPath
         ELSE ExistingAncestor(fsys, dirname(p))

are_on_same_filesystem_failing_open(fsys, mnts, path1, path2, flt) ==
    LET check_path2 == ExistingAncestor(fsys, path2)
    IN  IF check_path2 = NoPath \/ ~Exists(fsys, path1) \/ flt # "none" THEN TRUE
        ELSE st_dev(mnts, path1) = st_dev(mnts, check_path2)

\* flt names the os.stat call that raises OSError although the path was
\* there a moment ago: "none", "stat1" (line 66) or "stat2" (line 67)
are_on_same_filesystem(fsys, mnts, path1, path2, flt) ==
    LET check_path2 == ExistingAncestor(fsys, path2)
    IN  IF check_path2 = NoPath THEN FALSE
        ELSE IF ~Exists(fsys, path1) \/ flt = "stat1" THEN FALSE
        ELSE IF flt = "stat2" THEN FALSE
             ELSE st_dev(mnts, path1) = st_dev(mnts, check_path2)

\* ------------------------------------------------------------ staging root
\* the library location a catalog path belongs to, else its parent directory
LibraryRoot(plex_path, skipv, locs) ==
    LET hit == {i \in 1..Len(locs) : StartsWith(plex_path, locs[i])}
    IN  IF ~skipv /\ hit # {}
        THEN locs[CHOOSE i \in hit : \A j \in hit : i <= j]
        ELSE dirname(plex_path)

LocalLibraryParent(plex_path, mapping, skipv, locs) ==
    dirname(apply_path_mapping(LibraryRoot(plex_path, skipv, locs), mapping))

TempDirFor(plex_path, mapping, skipv, locs) ==
    join(LocalLibraryParent(plex_path, mapping, skipv, locs), TMPNAME)

\* ------------------------------------------------------------------- state
VARIABLES
    \* the environment: input lines, options, filesystem, devices
    stdin_lines, path_mapping, skip_validation, no_dry_run, max_wait,
    library_locations, mounts, fs,
    \* module globals (lines 257-259)
    library_temp_dirs, temp_paths, file_paths,
    \* locals of main
    plex_paths, album_ids_map, move_operations, results, elapsed_time,
    all_removed, still_visible_count, restore_operations, restore_results,
    \* what the catalog raised in the poll just made: "none", "server" (the
    \* whole poll failed) or "lookup" (the lookup of an album id failed)
    poll_error,
    \* locals of cleanup_and_restore
    temp_dirs_to_clean, album_dirs,
    \* the process: position, who runs the code, atexit registration, status
    pc, ctx, registered, exit_status,
    \* bookkeeping of the run
    signals, faults, fs0, renames, reports, polls,
    \* cl_calls counts the invocations of cleanup_and_restore, cl_bodies those
    \* that went past line 270; cl_done is the number of the first invocation
    \* that returned (0: none yet) and fs_done the filesystem it left; cl_ops
    \* says whether the current invocation has made a filesystem call
    cl_calls, cl_bodies, cl_done, cl_ops, fs_done, sig_at,
    \* the staging names taken on their own: the byte limit, the index of the
    \* first entry looked at, the artist and album directory names of the
    \* entries, and the staging paths computed so far (lines 600-605)
    name_max, name_base, name_args, name_paths,
    \* one poll taken on its own: the staged entries asked about, the answer
    \* of the server, and what check_albums_removed_from_plex returned
    poll_albums, poll_cat, poll_ret,
    \* one path resolution taken on its own: the path, the mapping, and what
    \* apply_path_mapping returned
    map_path, map_mapping, map_ret,
    \* one device check taken on its own: the filesystem and its mount points,
    \* the two paths, the os.stat call that fails, and what
    \* are_on_same_filesystem returned
    dev_fs, dev_mounts, dev_path1, dev_path2, dev_flt, dev_ret,
    \* 1 in the run of the program, 2 in a run started over the same input
    \* right after the first one completed
    run

namevars == <<name_max, name_base, name_args, name_paths>>
pollvars == <<poll_albums, poll_cat, poll_ret>>
mapvars == <<map_path, map_mapping, map_ret>>
devvars == <<dev_fs, dev_mounts, dev_path1, dev_path2, dev_flt, dev_ret>>
envvars == <<stdin_lines, path_mapping, skip_validation, no_dry_run, max_wait,
             library_locations, mounts, fs0, namevars, pollvars, mapvars,
             devvars, run>>
globals == <<library_temp_dirs, temp_paths, file_paths>>
mainvars == <<plex_paths, album_ids_map, move_operations, results,
              elapsed_time, all_removed, still_visible_count,
                   poll_error,
              restore_operations, restore_results>>
clvars == <<temp_dirs_to_clean, album_dirs>>
procvars == <<pc, ctx, registered, exit_status>>
histvars == <<signals, faults, renames, reports, polls,
              cl_calls, cl_bodies, cl_done, cl_ops, fs_done, sig_at>>
vars == <<envvars, fs, globals, mainvars, clvars, procvars, histvars>>

\* --------------------------------------------------------------- the inputs
P1 == <<S, "p", S, "a", S, "x">>
P2 == <<S, "p", S, "a", S, "y">>
P3 == <<S, "q", S, "c", S, "z">>
Universe == <<P1, P2, P3>>

\* len consecutive paths of the universe, from position start on
Input(start, len) == [i \in 1..len |-> Universe[start + i - 1]]

TheMapping == [present |-> TRUE, local_root |-> <<S, "l">>,
               plex_root |-> <<S, "p">>]
Mappings == {NoMapping, TheMapping}
\* --max-wait: zero, a ceiling that is no multiple of the interval, and two
\* intervals
MaxWaitChoices == {0, poll_interval + 2, 2 * poll_interval}
Anomalies == {"none", "missing_first", "missing_last", "mount", "outside",
              "plex_dirs", "left_empty", "left_hidden", "left_log", "left_file"}
\* a local that is not bound yet; a bound one is <<value>>
Unset == <<>>
NoSignal == [phase |-> "none", results |-> <<>>]

RECURSIVE Ancestors(_)
Ancestors(p) == IF dirname(p) = p \/ dirname(p) = <<>> THEN {}
                ELSE {dirname(p)} \cup Ancestors(dirname(p))

\* the filesystem before the run: the album directories of the input (but the
\* missing one), the AppleDouble file of album x, the directories of the
\* catalog namespace when the host has them too, and what an earlier run left
\* at the staging directory of the last entry's root
InitialFs(paths, mapping, skipv, locs, anomaly) ==
    LET n == Len(paths)
        L(i) == apply_path_mapping(paths[i], mapping)
        gone == IF anomaly = "missing_first" THEN {1}
                ELSE IF anomaly = "missing_last" THEN {n} ELSE {}
        albums == {L(i) : i \in (1..n) \ gone}
        dirs == {<<S>>} \cup UNION {Ancestors(L(i)) : i \in 1..n} \cup
                (IF anomaly = "plex_dirs"
                 THEN UNION {Ancestors(paths[i]) : i \in 1..n} ELSE {})
        f1 == [p \in dirs \cup albums |->
                 IF p \in albums THEN DirNode(<<p>>) ELSE DirNode(<<>>)]
        withAD == {i \in (1..n) \ gone : paths[i] = P1}
        f2 == [p \in DOMAIN f1 \cup {appledouble(L(i)) : i \in withAD} |->
                 IF p \in DOMAIN f1 THEN f1[p] ELSE FileNode(<<p>>)]
        td == TempDirFor(paths[n], mapping, skipv, locs)
        f3 == IF anomaly \in {"left_empty", "left_hidden", "left_log", "left_file"}
              THEN Put(f2, td, DirNode(<<>>)) ELSE f2
    IN  CASE anomaly = "left_hidden" -> Put(f3, join(td, <<".", "d">>), FileNode(<<>>))
          [] anomaly = "left_log" -> Put(f3, join(td, LOGNAME), FileNode(<<>>))
          [] anomaly = "left_file" -> Put(f3, join(td, <<"z", "z">>), FileNode(<<>>))
          [] OTHER -> f3

NoNames ==
    /\ name_max = max_filename_bytes
    /\ name_base = 0
    /\ name_args = <<>>
    /\ name_paths = <<>>

NoPollCall ==
    /\ poll_albums = <<>>
    /\ poll_cat = [up |-> FALSE, ids |-> {}, err |-> {}, dirs |-> {}]
    /\ poll_ret = Unset

NoMapCall ==
    /\ map_path = NoPath
    /\ map_mapping = NoMapping
    /\ map_ret = Unset

NoDevCall ==
    /\ dev_fs = <<>>
    /\ dev_mounts = {}
    /\ dev_path1 = NoPath
    /\ dev_path2 = NoPath
    /\ dev_flt = "none"
    /\ dev_ret = Unset

Init ==
    /\ run = 1
    /\ NoNames
    /\ NoPollCall
    /\ NoMapCall
    /\ NoDevCall
    /\ \E len \in 1..(IF MaxEntries < Len(Universe) THEN MaxEntries ELSE Len(Universe)),
       start \in 1..Len(Universe), mapping \in Mappings, skipv \in BOOLEAN,
       ndr \in BOOLEAN, mw \in MaxWaitChoices,
       anomaly \in Anomalies :
        LET paths == Input(start, len)
            locs == IF anomaly = "outside" THEN <<<<S, "p">>>>
                    ELSE <<<<S, "p">>, <<S, "q">>>>
            hasP3 == \E i \in 1..len : paths[i] = P3
        IN  /\ start + len - 1 <= Len(Universe)
            /\ (skipv \/ ~ndr) => mw = 2 * poll_interval
            /\ mw = poll_interval + 2 =>
                  len = 1 /\ ~mapping.present /\ anomaly = "none"
            /\ anomaly = "missing_last" => len > 1
            /\ anomaly \in {"mount", "outside"} => hasP3 /\ ~skipv
            /\ anomaly = "plex_dirs" => mapping.present
            /\ stdin_lines = [i \in 1..len |->
                                [path |-> paths[i],
                                 ids |-> IF i % 2 = 1 THEN <<i>> ELSE <<>>]]
            /\ path_mapping = mapping
            /\ skip_validation = skipv
            /\ no_dry_run = ndr
            /\ max_wait = mw
            /\ library_locations = locs
            /\ mounts = IF anomaly = "mount" THEN {<<S, "q">>} ELSE {}
            /\ fs = InitialFs(paths, mapping, skipv, locs, anomaly)
            /\ fs0 = InitialFs(paths, mapping, skipv, locs, anomaly)
    /\ library_temp_dirs = <<>>
    /\ temp_paths = <<>>
    /\ file_paths = <<>>
    /\ plex_paths = <<>>
    /\ album_ids_map = <<>>
    /\ move_operations = <<>>
    /\ results = <<>>
    /\ elapsed_time = 0
    /\ all_removed = Unset
    /\ still_visible_count = 0
    /\ poll_error = "none"
    /\ restore_operations = <<>>
    /\ restore_results = <<>>
    /\ temp_dirs_to_clean = <<>>
    /\ album_dirs = {}
    /\ pc = "start"
    /\ ctx = "main"
    /\ registered = TRUE
    /\ exit_status = 0
    /\ signals = 0
    /\ faults = 0
    /\ renames = {}
    /\ reports = {}
    /\ polls = 0
    /\ cl_calls = 0
    /\ cl_bodies = 0
    /\ cl_done = 0
    /\ cl_ops = FALSE
    /\ fs_done = fs
    /\ sig_at = NoSignal

\* -------------------------------------------------- move_file, restore_file
RenameRec(by, src, dst, ok) == [by |-> by, src |-> src, dst |-> dst, ok |-> ok]

move_file_losing_source(fsys, mnts, orig_path, temp_path, flt) ==
    IF ~Exists(fsys, orig_path)
    THEN [ok |-> FALSE, fs |-> fsys, tried |-> {}, why |-> "missing", used |-> FALSE]
    ELSE [ok |-> FALSE, fs |-> rmtree(fsys, orig_path),
          tried |-> {RenameRec("move", orig_path, temp_path, FALSE)},
          why |-> "oserror", used |-> (flt = "rename")]

\* flt names the OS call of this invocation that the environment makes fail:
\* "none", "rename" (the directory) or "appledouble" (the companion file)
move_file(fsys, mnts, orig_path, temp_path, flt) ==
    IF ~Exists(fsys, orig_path)
    THEN [ok |-> FALSE, fs |-> fsys, tried |-> {}, why |-> "missing", used |-> FALSE]
    ELSE
    LET f1 == makedirs(fsys, dirname(temp_path))
    IN  IF ~are_on_same_filesystem(f1, mnts, orig_path, temp_path, "none")
        THEN [ok |-> FALSE, fs |-> f1, tried |-> {}, why |-> "device", used |-> FALSE]
        ELSE IF flt = "rename" \/ ~CanRename(f1, mnts, orig_path, temp_path)
        THEN [ok |-> FALSE, fs |-> f1,
              tried |-> {RenameRec("move", orig_path, temp_path, FALSE)},
              why |-> "oserror", used |-> (flt = "rename")]
        ELSE
        LET f2 == Rename(f1, orig_path, temp_path)
            appledouble_orig == appledouble(orig_path)
            appledouble_temp == appledouble(temp_path)
            can == Exists(f2, appledouble_orig)
                     /\ CanRename(f2, mnts, appledouble_orig, appledouble_temp)
        IN  [ok |-> TRUE,
             fs |-> IF can /\ flt # "appledouble"
                    THEN Rename(f2, appledouble_orig, appledouble_temp) ELSE f2,
             tried |-> {RenameRec("move", orig_path, temp_path, TRUE)} \cup
                 (IF Exists(f2, appledouble_orig)
                  THEN {RenameRec("move_ad", appledouble_orig, appledouble_temp,
                                  can /\ flt # "appledouble")}
                  ELSE {}),
             why |-> "ok", used |-> (flt = "appledouble" /\ can)]

restore_file_without_appledouble(fsys, mnts, temp_path, orig_path, flt) ==
    LET f1 == makedirs(fsys, dirname(orig_path))
        ok == flt # "rename" /\ CanRename(f1, mnts, temp_path, orig_path)
    IN  [ok |-> ok, fs |-> IF ok THEN Rename(f1, temp_path, orig_path) ELSE f1,
         tried |-> {RenameRec("restore", temp_path, orig_path, ok)},
         used |-> (flt = "rename")]

restore_file(fsys, mnts, temp_path, orig_path, flt) ==
    LET f1 == makedirs(fsys, dirname(orig_path))
    IN  IF flt = "rename" \/ ~CanRename(f1, mnts, temp_path, orig_path)
        THEN [ok |-> FALSE, fs |-> f1,
              tried |-> {RenameRec("restore", temp_path, orig_path, FALSE)},
              used |-> (flt = "rename")]
        ELSE
        LET f2 == Rename(f1, temp_path, orig_path)
            appledouble_temp == appledouble(temp_path)
            appledouble_orig == appledouble(orig_path)
            can == Exists(f2, appledouble_temp)
                     /\ CanRename(f2, mnts, appledouble_temp, appledouble_orig)
        IN  [ok |-> TRUE,
             fs |-> IF can /\ flt # "appledouble"
                    THEN Rename(f2, appledouble_temp, appledouble_orig) ELSE f2,
             tried |-> {RenameRec("restore", temp_path, orig_path, TRUE)} \cup
                 (IF Exists(f2, appledouble_temp)
                  THEN {RenameRec("restore_ad", appledouble_temp, appledouble_orig,
                                  can /\ flt # "appledouble")}
                  ELSE {}),
             used |-> (flt = "appledouble" /\ can)]

FaultKinds == {"none", "rename", "appledouble"}
FaultAllowed(flt, used) == flt = "none" \/ (used /\ faults < MaxFaults)

\* --------------------------------------------------------- the Plex catalog
\* one answer of the server: reachable or not, the album ids it still holds,
\* the album ids whose lookup raises an error other than "not found", and
\* the album directories it still lists
Catalogs(idset, dirset) ==
    {c \in [up : BOOLEAN, ids : SUBSET idset, err : SUBSET idset,
            dirs : SUBSET dirset] :
        /\ c.ids \cap c.err = {}
        /\ ~c.up => c.ids = {} /\ c.err = {} /\ c.dirs = {}}

check_albums_removed_from_plex(cat, moved_albums_with_ids) ==
    IF ~cat.up THEN <<FALSE, Len(moved_albums_with_ids)>>
    ELSE
    LET visible(e) ==
            IF e.ids = <<>> THEN e.path \in cat.dirs
            ELSE \E j \in 1..Len(e.ids) :
                    e.ids[j] \notin cat.err /\ e.ids[j] \in cat.ids
        still_visible_paths ==
            {i \in 1..Len(moved_albums_with_ids) : visible(moved_albums_with_ids[i])}
    IN  <<Cardinality(still_visible_paths) = 0, Cardinality(still_visible_paths)>>

\* --------------------------------------------------------------------- main
Successes(rs) == Cardinality({i \in 1..Len(rs) : rs[i]})

ExitNormally(status) == /\ pc' = "atexit"
                        /\ exit_status' = 0

\* sys.exit(status), a return from main, or an exception leaving main
ExitWith(status) == /\ pc' = "atexit"
                    /\ exit_status' = status

\* lines 418-468: read the lines, validate them against the library
InvalidPaths(paths, locs) ==
    {i \in 1..Len(paths) :
        ~\E j \in 1..Len(locs) : StartsWith(paths[i], locs[j])}

\* line 470: without --no-dry-run the run only validates
AlwaysPlan(ndr) == "plan"

FirstPhase(ndr) == IF ndr THEN "plan" ELSE "dryrun"

Start ==
    /\ pc = "start"
    /\ LET paths == [i \in 1..Len(stdin_lines) |-> stdin_lines[i].path]
       IN  /\ file_paths' = paths
           /\ plex_paths' = paths
           /\ album_ids_map' =
                [p \in {paths[i] : i \in 1..Len(paths)} |->
                    stdin_lines[CHOOSE i \in 1..Len(paths) :
                        /\ paths[i] = p
                        /\ \A j \in 1..Len(paths) : paths[j] = p => j <= i].ids]
           /\ IF ~skip_validation /\ InvalidPaths(paths, library_locations) # {}
              THEN /\ ExitWith(1)
                   /\ reports' = reports \cup {<<"outside_library", paths[i]>> :
                                    i \in InvalidPaths(paths, library_locations)}
              ELSE /\ pc' = FirstPhase(no_dry_run)
                   /\ UNCHANGED <<exit_status, reports>>
    /\ UNCHANGED <<envvars, fs, library_temp_dirs, temp_paths, move_operations,
                   results, elapsed_time, all_removed, still_visible_count,
                   poll_error,
                   restore_operations, restore_results, clvars, ctx, registered,
                   signals, faults, renames, polls, cl_calls, cl_bodies,
                   cl_done, cl_ops, fs_done, sig_at>>

\* lines 470-529: the dry run only looks at the filesystem
DryRunErrors ==
    {i \in 1..Len(plex_paths) :
        LET local_path == apply_path_mapping(plex_paths[i], path_mapping)
            temp_dir == TempDirFor(plex_paths[i], path_mapping, skip_validation,
                                   library_locations)
        IN  \/ ~Exists(fs, local_path)
            \/ ~are_on_same_filesystem(fs, mounts, local_path, temp_dir, "none")}

DryRun ==
    /\ pc = "dryrun"
    /\ ExitWith(IF DryRunErrors # {} THEN 1 ELSE 0)
    /\ LET found == {j \in 1..Len(plex_paths) :
                       Exists(fs, apply_path_mapping(plex_paths[j], path_mapping))}
           local(i) == apply_path_mapping(plex_paths[i], path_mapping)
           temp_dir(i) == TempDirFor(plex_paths[i], path_mapping,
                                     skip_validation, library_locations)
       IN  reports' = reports \cup
             {<<"dry_run_temp_dir", temp_dir(i)>> : i \in found} \cup
             {<<IF are_on_same_filesystem(fs, mounts, local(i), temp_dir(i), "none")
                THEN "dry_run_same_filesystem"
                ELSE "dry_run_not_same_filesystem", local(i)>> : i \in found}
    /\ UNCHANGED <<envvars, fs, globals, mainvars, clvars, ctx, registered,
                   signals, faults, renames, polls, cl_calls, cl_bodies,
                   cl_done, cl_ops, fs_done, sig_at>>

\* lines 544-607: one iteration of the planning loop
TempDirOf(parent) ==
    library_temp_dirs[CHOOSE j \in 1..Len(library_temp_dirs) :
                        library_temp_dirs[j].root = parent].temp_dir

MoveOp(local_path, temp_path, plex_path) ==
    [local_path |-> local_path, temp_path |-> temp_path, plex_path |-> plex_path]

PlannedTempPath(i, temp_dir, local_path) ==
    join(temp_dir, safe_temp_name(i, basename(dirname(local_path)),
                                  basename(local_path), max_filename_bytes))

\* lines 576-580: a conflict names the restore log only when there is one
ConflictReportsWithoutLog(fsys, temp_dir) == {<<"conflict", temp_dir>>}

ConflictReports(fsys, temp_dir) ==
    LET restore_log == join(temp_dir, LOGNAME)
    IN  {<<"conflict", temp_dir>>} \cup
        (IF Exists(fsys, restore_log) THEN {<<"restore_log", restore_log>>} ELSE {})

NeverKnownRoot(dirs, parent) == FALSE

\* line 566: local_library_parent not in library_temp_dirs
KnownRoot(dirs, parent) == \E j \in 1..Len(dirs) : dirs[j].root = parent

PlanEntry ==
    /\ pc = "plan"
    /\ Len(move_operations) < Len(plex_paths)
    /\ LET i == Len(move_operations)
           plex_path == plex_paths[i + 1]
           local_path == apply_path_mapping(plex_path, path_mapping)
           parent == LocalLibraryParent(plex_path, path_mapping, skip_validation,
                                        library_locations)
           known == KnownRoot(library_temp_dirs, parent)
           new_dir == join(parent, TMPNAME)
           temp_contents == {f \in listdir(fs, new_dir) : ~IsHidden(f)}
           f1 == IF Exists(fs, new_dir) THEN Remove(fs, {new_dir}) ELSE fs
           f2 == Put(Put(makedirs(f1, new_dir), new_dir, DirNode(<<>>)),
                     join(new_dir, LOCKNAME), FileNode(<<>>))
           temp_dir == IF known THEN TempDirOf(parent) ELSE new_dir
           temp_path == PlannedTempPath(i, temp_dir, local_path)
           planned ==
               /\ temp_paths' = Append(temp_paths, temp_path)
               /\ move_operations' =
                    Append(move_operations, MoveOp(local_path, temp_path, plex_path))
               /\ pc' = IF i + 1 = Len(plex_paths) THEN "writelog" ELSE "plan"
               /\ UNCHANGED <<exit_status, reports>>
       IN  IF known
           THEN planned /\ UNCHANGED <<fs, library_temp_dirs>>
           ELSE IF Exists(fs, new_dir) /\ temp_contents # {}
           THEN \* line 576: the directory of an earlier run is in the way
                /\ ExitWith(1)
                /\ reports' = reports \cup ConflictReports(fs, new_dir)
                /\ UNCHANGED <<fs, library_temp_dirs, temp_paths, move_operations>>
           ELSE IF Exists(fs, new_dir) /\ listdir(fs, new_dir) # {}
           THEN \* line 574: os.rmdir of a directory holding hidden files raises
                /\ ExitWith(1)
                /\ reports' = reports \cup {<<"unhandled_error", new_dir>>}
                /\ UNCHANGED <<fs, library_temp_dirs, temp_paths, move_operations>>
           ELSE IF ~are_on_same_filesystem(f1, mounts, local_path, new_dir, "none")
           THEN \* line 585
                /\ ExitWith(1)
                /\ fs' = f1
                /\ reports' = reports \cup {<<"device_mismatch", local_path>>}
                /\ UNCHANGED <<library_temp_dirs, temp_paths, move_operations>>
           ELSE /\ fs' = f2
                /\ library_temp_dirs' =
                     Append(library_temp_dirs, [root |-> parent, temp_dir |-> new_dir])
                /\ planned
    /\ UNCHANGED <<envvars, file_paths, plex_paths, album_ids_map, results,
                   elapsed_time, all_removed, still_visible_count,
                   poll_error,
                   restore_operations, restore_results, clvars, ctx, registered,
                   signals, faults, renames, polls, cl_calls, cl_bodies,
                   cl_done, cl_ops, fs_done, sig_at>>

\* lines 609-618: the restore log of every staging directory
RECURSIVE RestoreLogLines(_, _)
RestoreLogLines(temp_dir, ops) ==
    IF ops = <<>> THEN <<>>
    ELSE (IF StartsWith(Head(ops).temp_path, temp_dir)
          THEN <<Head(ops).temp_path, Head(ops).local_path>> ELSE <<>>)
         \o RestoreLogLines(temp_dir, Tail(ops))

NoLogs(fsys, dirs, ops) == fsys

RECURSIVE WriteLogs(_, _, _)
WriteLogs(fsys, dirs, ops) ==
    IF dirs = <<>> THEN fsys
    ELSE WriteLogs(Put(fsys, join(Head(dirs).temp_dir, LOGNAME),
                       FileNode(RestoreLogLines(Head(dirs).temp_dir, ops))),
                   Tail(dirs), ops)

WriteRestoreLog ==
    /\ pc = "writelog"
    /\ fs' = WriteLogs(fs, library_temp_dirs, move_operations)
    /\ results' = <<>>
    /\ pc' = "move"
    /\ UNCHANGED <<envvars, globals, plex_paths, album_ids_map, move_operations,
                   elapsed_time, all_removed, still_visible_count,
                   poll_error,
                   restore_operations, restore_results, clvars, ctx, registered,
                   exit_status, histvars>>

\* lines 620-629: one iteration of the move loop
MoveEntry ==
    /\ pc = "move"
    /\ Len(results) < Len(move_operations)
    /\ \E flt \in FaultKinds :
        LET op == move_operations[Len(results) + 1]
            r == move_file(fs, mounts, op.local_path, op.temp_path, flt)
        IN  /\ FaultAllowed(flt, r.used)
            /\ fs' = r.fs
            /\ results' = Append(results, r.ok)
            /\ renames' = renames \cup r.tried
            /\ reports' = IF r.ok THEN reports
                          ELSE reports \cup {<<"move_failed", op.local_path>>} \cup
                               (IF r.why = "device"
                                THEN {<<"not_same_filesystem", op.local_path>>}
                                ELSE {})
            /\ faults' = IF flt = "none" THEN faults ELSE faults + 1
            /\ pc' = IF Len(results) + 1 = Len(move_operations)
                     THEN "moved" ELSE "move"
    /\ UNCHANGED <<envvars, globals, plex_paths, album_ids_map, move_operations,
                   elapsed_time, all_removed, still_visible_count,
                   poll_error,
                   restore_operations, restore_results, clvars, ctx, registered,
                   exit_status, signals, polls, cl_calls, cl_bodies, cl_done,
                   cl_ops, fs_done, sig_at>>

\* lines 631-652: the globals now name the local paths
LocalPaths(ops) == [i \in 1..Len(ops) |-> ops[i].local_path]

\* line 648: the polling phase is skipped with --skip-validation
AlwaysPoll(skipv) == "poll"

PhaseAfterStaging(skipv) == IF skipv THEN "restore" ELSE "poll"

NeverWithoutMoves(rs) == FALSE

\* line 641: successful_moves == 0
WithoutMoves(rs) == Successes(rs) = 0

UpdateGlobals ==
    /\ pc = "moved"
    /\ file_paths' = LocalPaths(move_operations)
    /\ IF WithoutMoves(results)
       THEN ExitWith(0) /\ UNCHANGED elapsed_time
       ELSE /\ pc' = PhaseAfterStaging(skip_validation)
            /\ elapsed_time' = 0
            /\ UNCHANGED exit_status
    /\ UNCHANGED <<envvars, fs, library_temp_dirs, temp_paths, plex_paths,
                   album_ids_map, move_operations, results, all_removed,
                   still_visible_count, poll_error, restore_operations,
                   restore_results,
                   clvars, ctx, registered, histvars>>

\* lines 657-680: one poll of the catalog
AllAlbumsWithIds ==
    [i \in 1..Len(results) |->
        [path |-> move_operations[i].plex_path,
         ids |-> album_ids_map[move_operations[i].plex_path]]]

MovedAlbumsWithIds ==
    LET RECURSIVE Collect(_)
        Collect(i) ==
            IF i > Len(results) THEN <<>>
            ELSE (IF results[i]
                  THEN <<[path |-> move_operations[i].plex_path,
                          ids |-> album_ids_map[move_operations[i].plex_path]]>>
                  ELSE <<>>) \o Collect(i + 1)
    IN  Collect(1)

AllIds(es) == UNION {{es[i].ids[j] : j \in 1..Len(es[i].ids)} : i \in 1..Len(es)}
AllDirs(es) == {es[i].path : i \in 1..Len(es)}

\* line 657: the condition of the polling loop
LoopContinuesAtCeiling(elapsed, max_wait_time) == elapsed <= max_wait_time

LoopContinues(elapsed, max_wait_time) == elapsed < max_wait_time

Poll ==
    /\ pc = "poll"
    /\ LoopContinues(elapsed_time, max_wait)
    /\ \E cat \in Catalogs(AllIds(MovedAlbumsWithIds), AllDirs(MovedAlbumsWithIds)) :
        LET r == check_albums_removed_from_plex(cat, MovedAlbumsWithIds)
        IN  /\ all_removed' = <<r[1]>>
            /\ still_visible_count' = r[2]
            /\ poll_error' = IF ~cat.up THEN "server"
                             ELSE IF cat.err # {} THEN "lookup" ELSE "none"
            /\ pc' = IF r[1] THEN "restore" ELSE "sleep"
    /\ polls' = polls + 1
    /\ UNCHANGED <<envvars, fs, globals, plex_paths, album_ids_map,
                   move_operations, results, elapsed_time, restore_operations,
                   restore_results, clvars, ctx, registered, exit_status,
                   signals, faults, renames, reports, cl_calls, cl_bodies,
                   cl_done, cl_ops, fs_done, sig_at>>

\* lines 679-680
Sleep ==
    /\ pc = "sleep"
    /\ elapsed_time' = elapsed_time + poll_interval
    /\ poll_error' = "none"
    /\ pc' = "poll"
    /\ UNCHANGED <<envvars, fs, globals, plex_paths, album_ids_map,
                   move_operations, results, all_removed, still_visible_count,
                   restore_operations, restore_results, clvars, ctx, registered,
                   exit_status, histvars>>

\* lines 657 and 682-683: the loop ends at the ceiling; all_removed is unbound
\* when the loop body never ran
PollTimeout ==
    /\ pc = "poll"
    /\ ~LoopContinues(elapsed_time, max_wait)
    /\ IF all_removed = Unset
       THEN /\ ExitWith(1)
            /\ reports' = reports \cup {<<"unhandled_error", <<"all_removed">>>>}
       ELSE /\ pc' = "restore"
            /\ reports' = reports \cup {<<"timeout", <<>>>>}
            /\ UNCHANGED exit_status
    /\ UNCHANGED <<envvars, fs, globals, mainvars, clvars, ctx, registered,
                   signals, faults, renames, polls, cl_calls, cl_bodies,
                   cl_done, cl_ops, fs_done, sig_at>>

\* lines 690-695: only what is at its staging path is restored
RestoreOpsOfAll ==
    [i \in 1..Len(file_paths) |->
        [temp_path |-> temp_paths[i], orig_path |-> file_paths[i]]]

RestoreOps ==
    LET RECURSIVE Collect(_)
        Collect(i) ==
            IF i > Len(file_paths) THEN <<>>
            ELSE (IF Exists(fs, temp_paths[i])
                  THEN <<[temp_path |-> temp_paths[i], orig_path |-> file_paths[i]]>>
                  ELSE <<>>) \o Collect(i + 1)
    IN  Collect(1)

BuildRestoreOps ==
    /\ pc = "restore"
    /\ restore_operations' = RestoreOps
    /\ restore_results' = <<>>
    /\ poll_error' = "none"
    /\ pc' = "restoring"
    /\ UNCHANGED <<envvars, fs, globals, plex_paths, album_ids_map,
                   move_operations, results, elapsed_time, all_removed,
                   still_visible_count, clvars, ctx, registered, exit_status,
                   histvars>>

\* line 700: the restore loop runs over every restore operation
RestoreLoopStopsAtFailure(rs, ops) ==
    Len(rs) = Len(ops) \/ \E j \in 1..Len(rs) : ~rs[j]

RestoreLoopDone(rs, ops) == Len(rs) = Len(ops)

\* lines 700-706: one iteration of the restore loop
RestoreEntry ==
    /\ pc = "restoring"
    /\ ~RestoreLoopDone(restore_results, restore_operations)
    /\ \E flt \in FaultKinds :
        LET op == restore_operations[Len(restore_results) + 1]
            r == restore_file(fs, mounts, op.temp_path, op.orig_path, flt)
        IN  /\ FaultAllowed(flt, r.used)
            /\ fs' = r.fs
            /\ restore_results' = Append(restore_results, r.ok)
            /\ renames' = renames \cup r.tried
            /\ reports' = IF r.ok THEN reports
                          ELSE reports \cup {<<"restore_failed", op.temp_path>>}
            /\ faults' = IF flt = "none" THEN faults ELSE faults + 1
    /\ UNCHANGED <<envvars, globals, plex_paths, album_ids_map, move_operations,
                   results, elapsed_time, all_removed, still_visible_count,
                   poll_error,
                   restore_operations, clvars, procvars, signals, polls,
                   cl_calls, cl_bodies, cl_done, cl_ops, fs_done, sig_at>>

KeptAtCompletion(dirs) == dirs

\* line 715: library_temp_dirs = {}
ClearedAtCompletion(dirs) == <<>>

\* lines 708-717: the run is complete; the globals are cleared
Complete ==
    /\ pc = "restoring"
    /\ RestoreLoopDone(restore_results, restore_operations)
    /\ library_temp_dirs' = ClearedAtCompletion(library_temp_dirs)
    /\ temp_paths' = <<>>
    /\ file_paths' = <<>>
    /\ reports' = reports \cup {<<"completed", <<>>>>}
    /\ ExitWith(0)
    /\ UNCHANGED <<envvars, fs, mainvars, clvars, ctx, registered,
                   signals, faults, renames, polls, cl_calls, cl_bodies,
                   cl_done, cl_ops, fs_done, sig_at>>

\* ------------------------------------------------------ cleanup_and_restore
\* lines 265-269: nothing to do, or take a copy of the staging directories
NeverNothingToDo == FALSE

NothingToDo == library_temp_dirs = <<>>

CleanupEnter ==
    /\ pc = "cl_enter"
    /\ IF NothingToDo
       THEN /\ pc' = "cl_return"
            /\ cl_done' = IF cl_done = 0 THEN cl_calls ELSE cl_done
            /\ fs_done' = IF cl_done = 0 THEN fs ELSE fs_done
            /\ UNCHANGED temp_dirs_to_clean
       ELSE /\ pc' = "cl_clear"
            /\ temp_dirs_to_clean' = library_temp_dirs
            /\ UNCHANGED <<cl_done, fs_done>>
    /\ UNCHANGED <<envvars, fs, globals, mainvars, album_dirs, ctx, registered,
                   exit_status, signals, faults, renames, reports, polls,
                   cl_calls, cl_bodies, cl_ops, sig_at>>

\* line 270
KeptTempDirs == library_temp_dirs

ClearedTempDirs == <<>>

CleanupClear ==
    /\ pc = "cl_clear"
    /\ library_temp_dirs' = ClearedTempDirs
    /\ cl_bodies' = cl_bodies + 1
    /\ pc' = "cl_root"
    /\ UNCHANGED <<envvars, fs, temp_paths, file_paths, mainvars, clvars, ctx,
                   registered, exit_status, signals, faults, renames, reports,
                   polls, cl_calls, cl_done, cl_ops, fs_done, sig_at>>

\* lines 275-280: the next staging directory and the albums found in it
NoAlbumDirs(fsys, temp_dir) == {}

AlbumDirsIn(fsys, temp_dir) ==
    {join(temp_dir, f) : f \in {g \in listdir(fsys, temp_dir) :
                                  ~IsHidden(g) /\ g \notin {LOCKNAME, LOGNAME}}}

CleanupRoot ==
    /\ pc = "cl_root"
    /\ IF temp_dirs_to_clean = <<>>
       THEN /\ pc' = "cl_return"
            /\ cl_done' = IF cl_done = 0 THEN cl_calls ELSE cl_done
            /\ fs_done' = IF cl_done = 0 THEN fs ELSE fs_done
            /\ UNCHANGED <<temp_dirs_to_clean, album_dirs, cl_ops>>
       ELSE /\ cl_ops' = TRUE
            /\ UNCHANGED <<cl_done, fs_done>>
            /\ IF Exists(fs, Head(temp_dirs_to_clean).temp_dir)
               THEN /\ album_dirs' = AlbumDirsIn(fs, Head(temp_dirs_to_clean).temp_dir)
                    /\ pc' = "cl_entry"
                    /\ UNCHANGED temp_dirs_to_clean
               ELSE /\ temp_dirs_to_clean' = Tail(temp_dirs_to_clean)
                    /\ pc' = "cl_root"
                    /\ UNCHANGED album_dirs
    /\ UNCHANGED <<envvars, fs, globals, mainvars, ctx, registered, exit_status,
                   signals, faults, renames, reports, polls, cl_calls,
                   cl_bodies, sig_at>>

\* lines 288-290: the original path tracked for a staged directory
OrigPathFor(temp_path) ==
    LET idx == {i \in 1..Len(temp_paths) :
                  temp_paths[i] = temp_path /\ i <= Len(file_paths)}
    IN  IF idx = {} THEN NoPath
        ELSE file_paths[CHOOSE i \in idx : \A j \in idx : i <= j]

\* lines 284-298: one staged directory is renamed back
CleanupRestoreEntry ==
    /\ pc = "cl_entry"
    /\ \E temp_path \in album_dirs, flt \in {"none", "rename"} :
        LET orig_path == OrigPathFor(temp_path)
            attempt == IsDir(fs, temp_path) /\ orig_path # NoPath
            ok == attempt /\ flt = "none" /\ CanRename(fs, mounts, temp_path, orig_path)
        IN  /\ FaultAllowed(flt, attempt /\ CanRename(fs, mounts, temp_path, orig_path))
            /\ fs' = IF ok THEN Rename(fs, temp_path, orig_path) ELSE fs
            /\ renames' = IF attempt
                          THEN renames \cup {RenameRec("cleanup", temp_path, orig_path, ok)}
                          ELSE renames
            /\ reports' = IF ok THEN reports
                          ELSE reports \cup {<<"cleanup_failed", temp_path>>}
            /\ faults' = IF flt = "none" THEN faults ELSE faults + 1
            /\ album_dirs' = album_dirs \ {temp_path}
    /\ UNCHANGED <<envvars, globals, mainvars, temp_dirs_to_clean, procvars,
                   signals, polls, cl_calls, cl_bodies, cl_done, cl_ops,
                   fs_done, sig_at>>

\* lines 300-315: the staging directory is removed with all it holds; when
\* rmtree fails the plain files are removed and the directory if then empty
RmtreeFallback(fsys, temp_dir) ==
    LET f1 == Remove(fsys, {p \in Children(fsys, temp_dir) : IsFile(fsys, p)})
    IN  IF Children(f1, temp_dir) = {} THEN Remove(f1, {temp_dir}) ELSE f1

CleanupRmtree ==
    /\ pc = "cl_entry"
    /\ album_dirs = {}
    /\ \E flt \in {"none", "rmtree"} :
        /\ FaultAllowed(flt, TRUE)
        /\ fs' = IF flt = "none"
                 THEN rmtree(fs, Head(temp_dirs_to_clean).temp_dir)
                 ELSE RmtreeFallback(fs, Head(temp_dirs_to_clean).temp_dir)
        /\ faults' = IF flt = "none" THEN faults ELSE faults + 1
    /\ temp_dirs_to_clean' = Tail(temp_dirs_to_clean)
    /\ pc' = "cl_root"
    /\ UNCHANGED <<envvars, globals, mainvars, album_dirs, ctx, registered,
                   exit_status, signals, renames, reports, polls, cl_calls,
                   cl_bodies, cl_done, cl_ops, fs_done, sig_at>>

\* --------------------------------------------------- signals and the exit
\* lines 364-367: SIGINT or SIGTERM arrives between two steps of whatever is
\* running; what it interrupts never resumes, because the handler ends in
\* sys.exit
Signal ==
    /\ pc # "terminated"
    /\ ~(pc = "atexit" /\ ~registered)
    /\ signals < MaxSignals
    /\ signals' = signals + 1
    /\ sig_at' = IF signals = 0 THEN [phase |-> pc, results |-> results]
                 ELSE sig_at
    /\ ctx' = "signal"
    /\ pc' = "cl_enter"
    /\ cl_calls' = cl_calls + 1
    /\ cl_ops' = FALSE
    /\ UNCHANGED <<envvars, fs, globals, mainvars, clvars, registered,
                   exit_status, faults, renames, reports, polls, cl_bodies,
                   cl_done, fs_done>>

\* lines 368-370: atexit.unregister, sys.exit(1)
SignalExit ==
    /\ pc = "cl_return"
    /\ ctx = "signal"
    /\ registered' = FALSE
    /\ ExitWith(1)
    /\ UNCHANGED <<envvars, fs, globals, mainvars, clvars, ctx, histvars>>

\* line 378: the interpreter runs the registered exit hook
AtExit ==
    /\ pc = "atexit"
    /\ IF registered
       THEN /\ ctx' = "atexit"
            /\ pc' = "cl_enter"
            /\ cl_calls' = cl_calls + 1
            /\ cl_ops' = FALSE
       ELSE /\ pc' = "terminated"
            /\ UNCHANGED <<ctx, cl_calls, cl_ops>>
    /\ UNCHANGED <<envvars, fs, globals, mainvars, clvars, registered,
                   exit_status, signals, faults, renames, reports, polls,
                   cl_bodies, cl_done, fs_done, sig_at>>

ExitHookReturn ==
    /\ pc = "cl_return"
    /\ ctx = "atexit"
    /\ pc' = "terminated"
    /\ UNCHANGED <<envvars, fs, globals, mainvars, clvars, ctx, registered,
                   exit_status, histvars>>

Next ==
    \/ Start
    \/ DryRun
    \/ PlanEntry
    \/ WriteRestoreLog
    \/ MoveEntry
    \/ UpdateGlobals
    \/ Poll
    \/ Sleep
    \/ PollTimeout
    \/ BuildRestoreOps
    \/ RestoreEntry
    \/ Complete
    \/ CleanupEnter
    \/ CleanupClear
    \/ CleanupRoot
    \/ CleanupRestoreEntry
    \/ CleanupRmtree
    \/ Signal
    \/ SignalExit
    \/ AtExit
    \/ ExitHookReturn

Spec == Init /\ [][Next]_vars

\* ------------------------------------------- the staging names on their own
\* safe_temp_name as the planner calls it (lines 600-605), for entries whose
\* names need sanitizing or do not fit the byte limit; the program itself is
\* not running
NotRunning ==
    /\ run = 1
    /\ stdin_lines = <<>> /\ path_mapping = NoMapping /\ skip_validation = FALSE
    /\ no_dry_run = FALSE /\ max_wait = 0 /\ library_locations = <<>>
    /\ mounts = {} /\ fs = <<>> /\ fs0 = <<>>
    /\ library_temp_dirs = <<>> /\ temp_paths = <<>> /\ file_paths = <<>>
    /\ plex_paths = <<>> /\ album_ids_map = <<>> /\ move_operations = <<>>
    /\ results = <<>> /\ elapsed_time = 0 /\ all_removed = Unset
    /\ still_visible_count = 0 /\ poll_error = "none"
    /\ restore_operations = <<>> /\ restore_results = <<>>
    /\ temp_dirs_to_clean = <<>> /\ album_dirs = {}
    /\ pc = "terminated" /\ ctx = "main" /\ registered = FALSE
    /\ exit_status = 0 /\ signals = 0 /\ faults = 0 /\ renames = {}
    /\ reports = {} /\ polls = 0 /\ cl_calls = 0 /\ cl_bodies = 0
    /\ cl_done = 0 /\ cl_ops = FALSE /\ fs_done = <<>> /\ sig_at = NoSignal

progvars == <<stdin_lines, path_mapping, skip_validation, no_dry_run, max_wait,
              library_locations, mounts, fs0, fs, globals, mainvars, clvars,
              procvars, histvars, run>>

\* directory names: two that sanitizing makes equal, two that differ in their
\* third byte only, and one with a character of two bytes
ArtistNames == {<<"a", ":">>, <<"a", "_">>}
AlbumNames == {<<"a", "b", "c">>, <<"a", "b", "x">>, <<"a", "e2">>}

\* byte limits: the one of the program and two that the names exceed
NameLimits == {3, 7, max_filename_bytes}

\* the first entry looked at is entry 0 or entry 9 of the run
NameBases == {0, 9}

StagingRoot == join(<<S, "l">>, TMPNAME)

NameInit ==
    /\ NoDevCall
    /\ NotRunning
    /\ NoPollCall
    /\ NoMapCall
    /\ name_max \in NameLimits
    /\ name_base \in NameBases
    /\ \E len \in 1..MaxEntries :
          name_args \in [1..len -> [artist : ArtistNames, album : AlbumNames]]
    /\ name_paths = <<>>

\* lines 600-605 for the next entry
NameEntry ==
    /\ Len(name_paths) < Len(name_args)
    /\ LET k == Len(name_paths) + 1
           safe_name == safe_temp_name(name_base + k - 1, name_args[k].artist,
                                       name_args[k].album, name_max)
       IN  name_paths' = Append(name_paths, join(StagingRoot, safe_name))
    /\ UNCHANGED <<progvars, pollvars, mapvars, devvars, name_max, name_base,
                   name_args>>

NameNext == NameEntry

NameSpec == NameInit /\ [][NameNext]_vars

\* ------------------------------------------------------ one poll on its own
\* check_albums_removed_from_plex for any staged entries and any answer of the
\* server; here the lookup of an album id the server holds may fail as well
PollIds == {1, 2}
PollPaths == {P1, P2}
PollEntries == [path : PollPaths, ids : {<<>>, <<1>>, <<1, 2>>}]

CatalogAnswers(idset, dirset) ==
    {c \in [up : BOOLEAN, ids : SUBSET idset, err : SUBSET idset,
            dirs : SUBSET dirset] :
        ~c.up => c.ids = {} /\ c.err = {} /\ c.dirs = {}}

PollInit ==
    /\ NoDevCall
    /\ NotRunning
    /\ NoNames
    /\ NoMapCall
    /\ \E len \in 1..MaxEntries : poll_albums \in [1..len -> PollEntries]
    /\ poll_cat \in CatalogAnswers(PollIds, PollPaths)
    /\ poll_ret = Unset

\* line 664: one call
PollOnce ==
    /\ poll_ret = Unset
    /\ poll_ret' = check_albums_removed_from_plex(poll_cat, poll_albums)
    /\ UNCHANGED <<progvars, namevars, mapvars, devvars, poll_albums, poll_cat>>

PollNext == PollOnce

PollSpec == PollInit /\ [][PollNext]_vars

\* ------------------------------------------- one path resolution on its own
\* apply_path_mapping for catalog paths under the catalog root of the mapping,
\* under a directory whose name only begins with the name of that root, and
\* elsewhere
MapRoots == {<<S, "p">>, <<S, "p", "2">>, <<S, "q">>}
MapPaths ==
    MapRoots \cup
    {join(join(r, <<d>>), <<n>>) : r \in MapRoots, d \in {"a", "c"},
                                  n \in {"x", "y", "z"}}
MapMappings ==
    {NoMapping, TheMapping,
     [present |-> TRUE, local_root |-> <<S, "l">>, plex_root |-> <<S, "p", S, "a">>],
     [present |-> TRUE, local_root |-> <<S, "l", S, "m">>, plex_root |-> <<S, "q">>]}

MapInit ==
    /\ NoDevCall
    /\ NotRunning
    /\ NoNames
    /\ NoPollCall
    /\ map_path \in MapPaths
    /\ map_mapping \in MapMappings
    /\ map_ret = Unset

\* one call, as in line 546
MapOnce ==
    /\ map_ret = Unset
    /\ map_ret' = apply_path_mapping(map_path, map_mapping)
    /\ UNCHANGED <<progvars, namevars, pollvars, devvars, map_path, map_mapping>>

MapNext == MapOnce

MapSpec == MapInit /\ [][MapNext]_vars

\* --------------------------------------------- one device check on its own
\* are_on_same_filesystem for an album directory and a staging directory that
\* may or may not exist, given absolute or relative to a working directory in
\* which nothing of its path exists, on one device or two, with any one stat
\* call failing
DevAlways == {<<S>>, <<S, "p">>, <<S, "p", S, "a">>, <<S, "q">>, <<S, "q", S, "c">>}
DevSometimes == {P1, P3, join(<<S, "p">>, TMPNAME), <<"r">>}
DevFilesystems ==
    {[p \in DevAlways \cup some |-> DirNode(<<>>)] : some \in SUBSET DevSometimes}
DevMounts == {{}, {<<S, "q">>}, {<<S, "p", S, "a">>}}
DevPaths1 == {P1, P3}
DevPaths2 == {join(<<S, "p">>, TMPNAME), join(<<S, "q">>, TMPNAME),
              join(<<"r">>, TMPNAME), join(<<"t">>, TMPNAME)}
StatFaults == {"none", "stat1", "stat2"}

DevInit ==
    /\ NotRunning
    /\ NoNames
    /\ NoPollCall
    /\ NoMapCall
    /\ dev_fs \in DevFilesystems
    /\ dev_mounts \in DevMounts
    /\ dev_path1 \in DevPaths1
    /\ dev_path2 \in DevPaths2
    /\ dev_flt \in StatFaults
    /\ dev_ret = Unset

\* one call, as in line 583
DevOnce ==
    /\ dev_ret = Unset
    /\ dev_ret' = <<are_on_same_filesystem(dev_fs, dev_mounts, dev_path1,
                                           dev_path2, dev_flt)>>
    /\ UNCHANGED <<progvars, namevars, pollvars, mapvars, dev_fs, dev_mounts,
                   dev_path1, dev_path2, dev_flt>>

DevNext == DevOnce

DevSpec == DevInit /\ [][DevNext]_vars

\* ------------------------------------------------------- a run and the next
\* the program run to its end without signals over input it finds in order,
\* and then, when that run completed with every entry restored, started again
\* over the same input and the filesystem the first run left
RerunInit ==
    /\ Init
    /\ no_dry_run
    /\ \A td \in {TempDirFor(stdin_lines[i].path, path_mapping, skip_validation,
                              library_locations) : i \in 1..Len(stdin_lines)} :
          ~Exists(fs, td)

Rerun ==
    /\ run = 1
    /\ pc = "terminated"
    /\ <<"completed", <<>>>> \in reports
    /\ Len(restore_results) = Len(move_operations)
    /\ \A j \in 1..Len(restore_results) : restore_results[j]
    /\ run' = 2
    /\ fs0' = fs
    /\ library_temp_dirs' = <<>> /\ temp_paths' = <<>> /\ file_paths' = <<>>
    /\ plex_paths' = <<>> /\ album_ids_map' = <<>> /\ move_operations' = <<>>
    /\ results' = <<>> /\ elapsed_time' = 0 /\ all_removed' = Unset
    /\ still_visible_count' = 0 /\ poll_error' = "none"
    /\ restore_operations' = <<>> /\ restore_results' = <<>>
    /\ temp_dirs_to_clean' = <<>> /\ album_dirs' = {}
    /\ pc' = "start" /\ ctx' = "main" /\ registered' = TRUE
    /\ exit_status' = 0 /\ signals' = 0 /\ faults' = 0 /\ renames' = {}
    /\ reports' = {} /\ polls' = 0 /\ cl_calls' = 0 /\ cl_bodies' = 0
    /\ cl_done' = 0 /\ cl_ops' = FALSE /\ fs_done' = fs /\ sig_at' = NoSignal
    /\ UNCHANGED <<stdin_lines, path_mapping, skip_validation, no_dry_run,
                   max_wait, library_locations, mounts, fs, namevars, pollvars,
                   mapvars, devvars>>

RerunNext ==
    \/ Start
    \/ PlanEntry
    \/ WriteRestoreLog
    \/ MoveEntry
    \/ UpdateGlobals
    \/ Poll
    \/ Sleep
    \/ PollTimeout
    \/ BuildRestoreOps
    \/ RestoreEntry
    \/ Complete
    \/ AtExit
    \/ CleanupEnter
    \/ CleanupClear
    \/ CleanupRoot
    \/ CleanupRestoreEntry
    \/ CleanupRmtree
    \/ ExitHookReturn
    \/ Rerun

RerunSpec == RerunInit /\ [][RerunNext]_vars

\* ------------------------------------------------- planning and restore logs
\* lines 544-618 on their own: planning and the writing of the restore logs,
\* for libraries in any order, one of them in a directory whose name begins
\* with the name of the staging directory
P4 == <<S, "p", S, "tmp.plexdance", "x", S, "c", S, "z">>
LogUniverse == {P1, P2, P3, P4}
LogLocations == <<dirname(P1), dirname(P3), dirname(P4)>>

LogInit ==
    /\ run = 1
    /\ NoDevCall
    /\ NoNames
    /\ NoPollCall
    /\ NoMapCall
    /\ \E len \in 1..MaxEntries, mapping \in Mappings, skipv \in BOOLEAN :
        \E paths \in [1..len -> LogUniverse] :
           /\ \A i, j \in 1..len : paths[i] = paths[j] => i = j
           /\ stdin_lines = [i \in 1..len |-> [path |-> paths[i], ids |-> <<>>]]
           /\ path_mapping = mapping
           /\ skip_validation = skipv
           /\ library_locations = LogLocations
           /\ fs = InitialFs(paths, mapping, skipv, LogLocations, "none")
           /\ fs0 = InitialFs(paths, mapping, skipv, LogLocations, "none")
    /\ no_dry_run = TRUE
    /\ max_wait = 2 * poll_interval
    /\ mounts = {}
    /\ library_temp_dirs = <<>> /\ temp_paths = <<>> /\ file_paths = <<>>
    /\ plex_paths = <<>> /\ album_ids_map = <<>> /\ move_operations = <<>>
    /\ results = <<>> /\ elapsed_time = 0 /\ all_removed = Unset
    /\ still_visible_count = 0 /\ poll_error = "none"
    /\ restore_operations = <<>> /\ restore_results = <<>>
    /\ temp_dirs_to_clean = <<>> /\ album_dirs = {}
    /\ pc = "start" /\ ctx = "main" /\ registered = TRUE
    /\ exit_status = 0 /\ signals = 0 /\ faults = 0 /\ renames = {}
    /\ reports = {} /\ polls = 0 /\ cl_calls = 0 /\ cl_bodies = 0
    /\ cl_done = 0 /\ cl_ops = FALSE /\ fs_done = fs /\ sig_at = NoSignal

LogNext ==
    \/ Start
    \/ PlanEntry
    \/ WriteRestoreLog

LogSpec == LogInit /\ [][LogNext]_vars

\* ================================================================== claims
Entries == 1..Len(move_operations)
LocalOf(i) == move_operations[i].local_path
TempOf(i) == move_operations[i].temp_path
Attempted(i) == i <= Len(results)

\* the album directory that was at path p before the run is now at path q
AlbumAt(p, q) == Exists(fs, q) /\ fs[q] = DirNode(<<p>>)
HadAlbum(p) == Exists(fs0, p) /\ fs0[p] = DirNode(<<p>>)

\* C1: once the move of an entry has been attempted, the entry's directory is
\* at exactly one of its local path and its staging path, in every state of
\* staging, polling, restore and recovery.
C1_ExactlyOnePlace ==
    \A i \in Entries :
        Attempted(i) /\ HadAlbum(LocalOf(i)) =>
            (AlbumAt(LocalOf(i), LocalOf(i)) # AlbumAt(LocalOf(i), TempOf(i)))

\* C6: a run in which every move succeeded, the catalog reported absence and
\* every restore succeeded ends, uninterrupted, with the filesystem it began
\* with.
CleanRun ==
    /\ <<"completed", <<>>>> \in reports
    /\ signals = 0
    /\ faults = 0
    /\ \A i \in 1..Len(results) : results[i]
    /\ \A j \in 1..Len(restore_results) : restore_results[j]
    /\ all_removed = <<TRUE>>

C6_FinalStateIsInitial == CleanRun => fs = fs0

\* C2 as stated: after a successful move and a successful restore the
\* directory is at its local path, the companion file (if there was one) is
\* at its original path, and nothing of the entry is left at the staging path.
CompanionAt(o) ==
    Exists(fs, appledouble(o)) /\ fs[appledouble(o)] = fs0[appledouble(o)]
HadCompanion(o) == Exists(fs0, appledouble(o))
RestoredOps == {j \in 1..Len(restore_results) : restore_results[j]}

C3_IdempotentRecovery ==
    cl_done > 0 => /\ fs = fs_done
                   /\ cl_calls > cl_done => ~cl_ops

C3_Witness ==
    /\ cl_done > 0
    /\ cl_calls > cl_done
    /\ pc = "cl_return"
    /\ \E r \in renames : r.by = "cleanup" /\ r.ok
    /\ fs_done # fs0

\* C4: an entry whose staging directory is on another device than its local
\* path is never renamed: no rename is tried on it, the move is reported as
\* failed for that reason, and the source stays as it was.
OtherDevice(i) ==
    /\ Exists(fs0, LocalOf(i))
    /\ st_dev(mounts, LocalOf(i)) # st_dev(mounts, dirname(TempOf(i)))

C4_CrossDeviceNotRenamed ==
    \A i \in Entries :
        Attempted(i) /\ OtherDevice(i) =>
            /\ ~results[i]
            /\ <<"not_same_filesystem", LocalOf(i)>> \in reports
            /\ \A r \in renames : r.src # LocalOf(i) /\ r.src # TempOf(i)
            /\ Exists(fs, LocalOf(i))
            /\ fs[LocalOf(i)] = fs0[LocalOf(i)]
            /\ ~Exists(fs, TempOf(i))

C4_Witness ==
    \E i \in Entries :
        /\ Attempted(i) /\ OtherDevice(i)
        /\ \E k \in Entries : Attempted(k) /\ results[k]
        /\ signals = 0
        /\ <<"completed", <<>>>> \in reports

\* C5 as stated: with a non-empty staging directory in the way (here even one
\* with a visible item in it) the real, uninterrupted run ends with no rename
\* made and with the path of the old restore log reported.
StagingDirsOfInput ==
    {TempDirFor(stdin_lines[i].path, path_mapping, skip_validation,
                library_locations) : i \in 1..Len(stdin_lines)}
LeftoverDirs ==
    {td \in StagingDirsOfInput : Exists(fs0, td) /\ listdir(fs0, td) # {}}
PastPlanning ==
    pc \in {"writelog", "move", "moved", "poll", "sleep", "restore", "restoring"}

VisibleLeftoverDirs ==
    {td \in LeftoverDirs : \E f \in listdir(fs0, td) : ~IsHidden(f)}

C7_SignalDuringStaging ==
    (sig_at.phase = "move" /\ signals = 1 /\ faults = 0 /\ pc = "terminated") =>
        LET k == Len(sig_at.results)
        IN  /\ \A i \in Entries : HadAlbum(LocalOf(i)) => AlbumAt(LocalOf(i), LocalOf(i))
            /\ \A i \in Entries : ~Exists(fs, dirname(TempOf(i)))
            /\ \A i \in 1..k : sig_at.results[i] =>
                  RenameRec("cleanup", TempOf(i), LocalOf(i), TRUE) \in renames
            /\ \A r \in renames : r.by = "move" => \E i \in 1..k : r.src = LocalOf(i)
            /\ exit_status # 0

\* C8: every rename made by the recovery routine takes a staged directory to
\* the local path it was moved from.
C8_RecoveryTarget ==
    \A r \in renames :
        r.by = "cleanup" => \E i \in Entries : r.src = TempOf(i) /\ r.dst = LocalOf(i)

\* C9: a step that puts an entry at its staging path starts from a state in
\* which the restore log of that staging directory is completely written.
LogComplete(fsys, temp_dir) ==
    /\ IsFile(fsys, join(temp_dir, LOGNAME))
    /\ fsys[join(temp_dir, LOGNAME)].c = RestoreLogLines(temp_dir, move_operations)

InputEntries == 1..Len(stdin_lines)
InputLocal(i) == apply_path_mapping(stdin_lines[i].path, path_mapping)
MissingInput == {i \in InputEntries : ~Exists(fs0, InputLocal(i))}

\* a real run that nothing but a missing source disturbs: no signal, no
\* failing call, one device, no staging directory left by an earlier run,
\* every path inside the library, a positive ceiling of the polling loop
UndisturbedRun ==
    /\ no_dry_run
    /\ signals = 0
    /\ faults = 0
    /\ mounts = {}
    /\ LeftoverDirs = {}
    /\ max_wait > 0
    /\ \A r \in reports : r[1] # "outside_library"

\* C11: a missing source of any one entry, the first planned into a staging
\* directory included, fails that entry only: the run completes and every
\* other entry of the input is staged and restored to its local path.
C11_MissingSourceNotFatal ==
    (/\ UndisturbedRun
     /\ MissingInput # {}
     /\ InputEntries \ MissingInput # {}
     /\ pc = "terminated") =>
        /\ <<"completed", <<>>>> \in reports
        /\ \A i \in InputEntries \ MissingInput :
              /\ \E r \in renames :
                    r.by = "move" /\ r.src = InputLocal(i) /\ r.ok
              /\ \E r \in renames :
                    r.by = "restore" /\ r.dst = InputLocal(i) /\ r.ok
              /\ AlbumAt(InputLocal(i), InputLocal(i))

\* C12: an error of the catalog during a poll, of the whole poll or of the
\* lookup of one album id, leaves that poll undetermined: the poll does not
\* report the albums removed, the loop does not end as a success, and the run
\* goes on to wait for the next poll.
C12_PollErrorUndetermined ==
    poll_error # "none" =>
        /\ all_removed = <<FALSE>>
        /\ signals = 0 => pc = "sleep"

\* a real run with the polling phase that no signal and no failing call
\* disturbs, that staged something, and that ended without the catalog
\* having confirmed the removal
UnconfirmedRun ==
    /\ no_dry_run
    /\ ~skip_validation
    /\ signals = 0
    /\ faults = 0
    /\ pc = "terminated"
    /\ Successes(results) > 0
    /\ all_removed # <<TRUE>>

\* C13: for every --max-wait, zero included, a run whose polling ends without
\* confirmation goes on to the restore phase on the normal path and restores
\* every staged entry: the timeout is reported, the run completes with exit
\* status 0 and without an unhandled error.
C13_TimeoutIsNormal ==
    UnconfirmedRun =>
        /\ <<"timeout", <<>>>> \in reports
        /\ <<"completed", <<>>>> \in reports
        /\ \A r \in reports : r[1] # "unhandled_error"
        /\ exit_status = 0
        /\ \A i \in Entries :
              results[i] =>
                 /\ RenameRec("restore", TempOf(i), LocalOf(i), TRUE) \in renames
                 /\ AlbumAt(LocalOf(i), LocalOf(i))

\* the number of poll intervals that fit in the ceiling, and the number of
\* intervals needed to reach it
IntervalsIn(w) == w \div poll_interval
IntervalsToReach(w) == (w + poll_interval - 1) \div poll_interval

\* C14 as stated: when the catalog never confirms the removal, the polls made
\* are as many as the poll intervals that fit in --max-wait, and the restore
\* phase follows.
C14_PollCountAsStated ==
    (UnconfirmedRun /\ max_wait > 0) =>
        /\ polls = IntervalsIn(max_wait)
        /\ <<"completed", <<>>>> \in reports

\* C14 amended: when the catalog never confirms the removal, the polls made
\* are as many as the intervals needed to reach the ceiling (the ceiling
\* divided by the interval, rounded up: two polls for 10 seconds at 5, none
\* for 0); with a positive ceiling the timeout is then reported and the
\* restore phase follows and tries every staged entry.
C14_PollCount ==
    UnconfirmedRun =>
        /\ polls = IntervalsToReach(max_wait)
        /\ max_wait = 2 * poll_interval => polls = 2
        /\ max_wait > 0 =>
              /\ <<"timeout", <<>>>> \in reports
              /\ <<"completed", <<>>>> \in reports
              /\ \A i \in Entries :
                    results[i] =>
                       \E r \in renames : r.by = "restore" /\ r.src = TempOf(i)

C14_Witness ==
    /\ UnconfirmedRun
    /\ max_wait = 2 * poll_interval
    /\ polls = 2
    /\ <<"completed", <<>>>> \in reports
    /\ \E r \in renames : r.by = "restore" /\ r.ok

\* C15: a dry run validates and reports the planned staging directory and the
\* device check of every entry found, and changes nothing: the filesystem
\* stays as it was, no rename is tried, no staging directory is registered,
\* and whoever invokes cleanup_and_restore (exit hook or signal handler) finds
\* nothing to do and makes no filesystem call.
C15_DryRunLeavesFilesystem ==
    ~no_dry_run =>
        /\ fs = fs0
        /\ renames = {}
        /\ library_temp_dirs = <<>>
        /\ cl_bodies = 0
        /\ ~cl_ops
        /\ (pc = "terminated" /\ signals = 0
              /\ \A r \in reports : r[1] # "outside_library") =>
              \A i \in InputEntries \ MissingInput :
                 /\ <<"dry_run_temp_dir",
                      TempDirFor(stdin_lines[i].path, path_mapping,
                                 skip_validation, library_locations)>> \in reports
                 /\ \/ <<"dry_run_same_filesystem", InputLocal(i)>> \in reports
                    \/ <<"dry_run_not_same_filesystem", InputLocal(i)>> \in reports

C15_Witness ==
    /\ ~no_dry_run
    /\ pc = "terminated"
    /\ cl_calls > 0
    /\ LeftoverDirs # {}
    /\ \E r \in reports : r[1] = "dry_run_temp_dir"
    /\ \E r \in reports : r[1] = "dry_run_same_filesystem"

\* C16: with --skip-validation the run goes from the staging phase straight
\* to the restore phase: the catalog is never polled, no poll interval is
\* waited, and no timeout is reported.
C16_SkipValidationNoPolling ==
    skip_validation =>
        /\ polls = 0
        /\ elapsed_time = 0
        /\ all_removed = Unset
        /\ pc \notin {"poll", "sleep"}
        /\ <<"timeout", <<>>>> \notin reports

C16_Witness ==
    /\ skip_validation
    /\ no_dry_run
    /\ polls = 0
    /\ <<"completed", <<>>>> \in reports
    /\ \E r \in renames : r.by = "move" /\ r.ok
    /\ \E r \in renames : r.by = "restore" /\ r.ok

\* the run has just been ended by a batch-fatal error of the planning loop:
\* a staging directory in the way, or a staging directory on another device
FatalAbort ==
    /\ pc = "atexit"
    /\ signals = 0
    /\ MissingInput = {}
    /\ \E r \in reports : r[1] \in {"conflict", "device_mismatch"}

\* C17: at the moment a batch-fatal error ends the run nothing has been
\* changed: no staging directory or lock of any root has been created, no
\* leftover directory removed, no entry renamed.
C17_FatalBeforeMutation ==
    FatalAbort =>
        /\ fs = fs0
        /\ library_temp_dirs = <<>>
        /\ renames = {}

\* entry i was renamed into its staging directory
Staged(i) == RenameRec("move", LocalOf(i), TempOf(i), TRUE) \in renames

\* the restore log beside the staging path of entry i exists and holds the
\* line that moves the entry back
LogNames(i) ==
    LET restore_log == join(dirname(TempOf(i)), LOGNAME)
    IN  /\ IsFile(fs, restore_log)
        /\ \E k \in 1..(Len(fs[restore_log].c) - 1) :
              /\ fs[restore_log].c[k] = TempOf(i)
              /\ fs[restore_log].c[k + 1] = LocalOf(i)

\* C18: when the process has terminated and a staged entry is not back at
\* its local path, the restore log of its staging directory is still on disk
\* and still names the entry's staging path and local path (here for runs
\* without a path mapping).
C18_LogSurvives ==
    (pc = "terminated" /\ ~path_mapping.present) =>
        \A i \in Entries :
            (Attempted(i) /\ Staged(i) /\ ~AlbumAt(LocalOf(i), LocalOf(i))) =>
                LogNames(i)

\* the entry directories a staging directory holds
EntryDirsIn(fsys, temp_dir) ==
    {p \in Children(fsys, temp_dir) : IsDir(fsys, p)}

\* C19: a staging directory is removed only when it holds no entry directory
\* any more: no step takes away a staging directory in which an entry, whose
\* rename back failed or whose original location was not found, still is.
C19_RemovesOnlyEmpty ==
    [][\A td \in StagingDirsOfInput :
          (IsDir(fs, td) /\ ~Exists(fs', td)) => EntryDirsIn(fs, td) = {}]_vars

\* path p is now as it was before the run: absent as then, or there with
\* the same content
AsFound(p) == IF Exists(fs0, p) THEN Exists(fs, p) /\ fs[p] = fs0[p]
              ELSE ~Exists(fs, p)

MovePhaseOver == pc \in {"moved", "poll", "sleep", "restore", "restoring"}

\* C20: an entry whose move failed, for whatever reason, has its source
\* directory and its companion file as they were found and nothing at its
\* staging path, and the failure is reported for that entry; the move loop
\* goes on: when it is over every planned entry has been tried, and the
\* entries it did rename are the ones marked as moved.
C20_FailedMoveLeavesSource ==
    /\ \A i \in Entries :
          (Attempted(i) /\ ~results[i]) =>
              /\ AsFound(LocalOf(i))
              /\ AsFound(appledouble(LocalOf(i)))
              /\ ~Exists(fs, TempOf(i))
              /\ ~Staged(i)
              /\ \/ <<"move_failed", LocalOf(i)>> \in reports
                 \/ <<"not_same_filesystem", LocalOf(i)>> \in reports
    /\ \A i \in Entries : (Attempted(i) /\ results[i]) => Staged(i)
    /\ MovePhaseOver => Len(results) = Len(move_operations)

C20_Witness ==
    /\ MovePhaseOver
    /\ \E i, k \in Entries :
          /\ i < k
          /\ ~results[i] /\ results[k]
          /\ HadCompanion(LocalOf(i))
          /\ RenameRec("move", LocalOf(i), TempOf(i), FALSE) \in renames
          /\ Staged(k)

\* C21: a restore that fails does not stop the restore phase. In a run that
\* no signal interrupts, the entry whose restore failed stays in its staging
\* directory and is reported as failed, every restore that succeeded has its
\* entry at its local path, and when the run completes every restore
\* operation has been tried.
C21_RestoreFailureNotFatal ==
    signals = 0 =>
        /\ \A j \in 1..Len(restore_results) :
              LET t == restore_operations[j].temp_path
                  o == restore_operations[j].orig_path
              IN  IF restore_results[j]
                  THEN AlbumAt(o, o) /\ <<"restore_failed", t>> \notin reports
                  ELSE AlbumAt(o, t) /\ <<"restore_failed", t>> \in reports
        /\ <<"completed", <<>>>> \in reports =>
              /\ Len(restore_results) = Len(restore_operations)
              /\ \A i \in Entries :
                    Staged(i) => \E j \in 1..Len(restore_operations) :
                                    restore_operations[j].temp_path = TempOf(i)

C21_Witness ==
    /\ signals = 0
    /\ <<"completed", <<>>>> \in reports
    /\ Len(restore_results) > 1
    /\ ~restore_results[1]
    /\ restore_results[Len(restore_results)]
    /\ AlbumAt(restore_operations[1].orig_path, restore_operations[1].temp_path)

\* the paths a rename of entry i or of its companion file starts from
PathsOf(i) == {LocalOf(i), TempOf(i),
               appledouble(LocalOf(i)), appledouble(TempOf(i))}
Restored(i) ==
    \E r \in renames : r.by \in {"restore", "cleanup"} /\ r.src = TempOf(i) /\ r.ok

\* C22: an entry changes state only by its move and by its restore. No step
\* tries a rename on an entry whose move has failed, no step moves an entry
\* again once it has been restored, and a poll of the catalog changes neither
\* the filesystem nor any move or restore result.
C22_EntryTransitions ==
    [][/\ \A i \in Entries :
             (Attempted(i) /\ ~results[i]) =>
                 \A r \in renames' \ renames : r.src \notin PathsOf(i)
       /\ \A i \in Entries :
             Restored(i) =>
                 \A r \in renames' \ renames :
                     ~(r.by \in {"move", "move_ad"} /\ r.src \in PathsOf(i))
       /\ polls' # polls =>
             /\ fs' = fs
             /\ results' = results
             /\ restore_results' = restore_results
             /\ renames' = renames]_vars

C22_Witness ==
    /\ <<"completed", <<>>>> \in reports
    /\ polls > 0
    /\ \E i, k \in Entries : /\ Attempted(i) /\ ~results[i]
                             /\ Attempted(k) /\ results[k] /\ Restored(k)

\* C23: the polling loop ends with success at the first poll that finds no
\* staged entry visible. A poll is made only while no poll has succeeded; it
\* is handed exactly the entries whose move succeeded; it succeeds when its
\* still-visible count is zero, and then the restore phase is next, while
\* otherwise the loop waits for the next poll.
C23_PollingEndsAtFirstSuccess ==
    [][polls' # polls =>
          /\ all_removed # <<TRUE>>
          /\ \A k \in 1..Len(MovedAlbumsWithIds) :
                \E i \in Entries :
                    /\ results[i]
                    /\ move_operations[i].plex_path = MovedAlbumsWithIds[k].path
          /\ Len(MovedAlbumsWithIds) = Successes(results)
          /\ still_visible_count' <= Successes(results)
          /\ all_removed' = <<TRUE>> => still_visible_count' = 0 /\ pc' = "restore"
          /\ all_removed' = <<FALSE>> => pc' = "sleep"
          /\ (still_visible_count' = 0) = (all_removed' = <<TRUE>>)]_vars

C23_Witness ==
    /\ polls = 2
    /\ all_removed = <<TRUE>>
    /\ pc = "restore"
    /\ \E i \in Entries : Attempted(i) /\ ~results[i]

\* the one signal of the run arrived while the polling loop was waiting
\* between two polls, and no rename of the recovery was refused
SignalInSleep ==
    /\ sig_at.phase = "sleep"
    /\ signals = 1
    /\ \A r \in renames : r.by = "cleanup" => r.ok

\* C24: a signal during the wait between two polls ends the wait. No poll is
\* made after it; when the process has terminated, every entry that was
\* staged is back at its local path, renamed there by the recovery, and the
\* exit status is not zero.
C24_SignalDuringSleep ==
    /\ [][sig_at.phase = "sleep" => polls' = polls]_vars
    /\ []((SignalInSleep /\ pc = "terminated") =>
            /\ exit_status # 0
            /\ cl_bodies = 1
            /\ \A i \in Entries :
                  results[i] =>
                     /\ RenameRec("cleanup", TempOf(i), LocalOf(i), TRUE) \in renames
                     /\ AlbumAt(LocalOf(i), LocalOf(i))
                     /\ ~Exists(fs, TempOf(i)))

C24_Witness ==
    /\ SignalInSleep
    /\ pc = "terminated"
    /\ path_mapping.present
    /\ Successes(results) > 1
    /\ \A i \in Entries : results[i] => AlbumAt(LocalOf(i), LocalOf(i))


\* the run was aborted while entries were being staged or while the catalog
\* was being polled: by the first signal, or by an error nothing handles
AbortedBySignal == sig_at.phase \in {"move", "moved", "poll", "sleep"}
AbortedByError == <<"unhandled_error", <<"all_removed">>>> \in reports

MoveRenames == {r \in renames : r.by = "move"}
RestoreRenames == {r \in renames : r.by = "restore"}

\* C25: after an abort during staging or polling nothing of the interrupted
\* phase or of the phases after it is done any more: no entry is moved, no
\* poll is made and the restore phase of the main program does not run; the
\* recovery routine runs, and the process terminates with a non-zero status.
C25_AbortSkipsRemainingWork ==
    /\ [][(AbortedBySignal \/ AbortedByError) =>
             /\ results' = results
             /\ polls' = polls
             /\ restore_results' = restore_results
             /\ MoveRenames' = MoveRenames
             /\ RestoreRenames' = RestoreRenames]_vars
    /\ []((pc = "terminated" /\ (AbortedBySignal \/ AbortedByError)) =>
             /\ exit_status # 0
             /\ cl_bodies >= 1
             /\ library_temp_dirs = <<>>)

C25_Witness ==
    /\ pc = "terminated"
    /\ sig_at.phase = "move"
    /\ Len(sig_at.results) = 1
    /\ Len(move_operations) = 2
    /\ Len(results) = 1
    /\ exit_status = 1
    /\ signals = 1
    /\ polls = 0


\* the main program has printed its completion message and cleared the
\* globals (lines 712-717)
Completed == <<"completed", <<>>>> \in reports

\* C26: once the run is complete nothing is left for the recovery routine to
\* do: whether it is entered from the exit hook or from a signal handler, it
\* returns at once, so the filesystem does not change any more and no rename
\* is attempted.
C26_CompleteIsTerminal ==
    [][Completed =>
          /\ fs' = fs
          /\ renames' = renames
          /\ cl_bodies' = cl_bodies
          /\ library_temp_dirs' = <<>>]_vars

\* after completion both the exit hook and a signal handler entered the
\* recovery routine, and a staging directory was there to be removed
C26_Witness ==
    /\ Completed
    /\ pc = "terminated"
    /\ signals = 1
    /\ cl_calls = 2
    /\ cl_bodies = 0
    /\ \E i \in Entries : IsDir(fs, dirname(TempOf(i)))


\* the staging roots are tracked from planning until recovery or completion
\* clears them
RootsTracked ==
    pc \in {"plan", "writelog", "move", "moved", "poll", "sleep", "restore",
            "restoring"}

RootsOf(i) == {j \in 1..Len(library_temp_dirs) :
                  dirname(TempOf(i)) = library_temp_dirs[j].temp_dir}

\* the parent directory the planner computes for the entry (lines 548-563)
ParentOf(i) ==
    LocalLibraryParent(move_operations[i].plex_path, path_mapping,
                       skip_validation, library_locations)

\* C27: a parent directory has at most one staging root, which is the
\* directory tmp.plexdance in it; every planned entry has its staging path
\* directly in exactly one root, the one of its parent directory; planning an
\* entry whose parent already has a root creates nothing; and the run never
\* reports a conflict with a staging directory it created itself.
C27_StagingRootOncePerParent ==
    /\ [](\A j, k \in 1..Len(library_temp_dirs) :
             /\ library_temp_dirs[j].temp_dir =
                   join(library_temp_dirs[j].root, TMPNAME)
             /\ library_temp_dirs[j].root = library_temp_dirs[k].root => j = k)
    /\ [](RootsTracked =>
             \A i \in Entries :
                /\ Cardinality(RootsOf(i)) = 1
                /\ \A j \in RootsOf(i) : library_temp_dirs[j].root = ParentOf(i))
    /\ [](\A r \in reports : r[1] = "conflict" => Exists(fs0, r[2]))
    /\ [][(/\ pc = "plan"
           /\ Len(move_operations') > Len(move_operations)
           /\ KnownRoot(library_temp_dirs,
                        LocalLibraryParent(plex_paths[Len(move_operations) + 1],
                                           path_mapping, skip_validation,
                                           library_locations)))
          => fs' = fs /\ library_temp_dirs' = library_temp_dirs]_vars

\* two entries were planned into one root, and the run went on to stage them
C27_Witness ==
    /\ pc = "move"
    /\ Len(move_operations) = 2
    /\ Len(library_temp_dirs) = 1
    /\ RootsOf(1) = RootsOf(2)
    /\ TempOf(1) # TempOf(2)
    /\ IsFile(fs, join(library_temp_dirs[1].temp_dir, LOCKNAME))


\* the entry whose staging path is name_paths[k]
NameIndex(k) == name_base + k - 1
NameOf(k) == basename(name_paths[k])
\* what follows the index and its separator in the staging name
NameRest(k) == SubSeq(NameOf(k), Len(IndexStr(NameIndex(k))) + 2, Len(NameOf(k)))

\* C28: the staging paths of two distinct entries differ, whatever sanitizing
\* and truncation do to the names, and every staging name begins with the
\* index of its entry followed by an underscore.
C28_DistinctStagingPaths ==
    /\ \A j, k \in 1..Len(name_paths) : j # k => name_paths[j] # name_paths[k]
    /\ \A k \in 1..Len(name_paths) :
          /\ StartsWith(NameOf(k), IndexStr(NameIndex(k)) \o <<"_">>)
          /\ dirname(name_paths[k]) = StagingRoot

\* two entries of different names whose staging names differ in the index only
C28_Witness ==
    \E j, k \in 1..Len(name_paths) :
        /\ j # k
        /\ name_args[j].artist # name_args[k].artist
        /\ name_args[j].album # name_args[k].album
        /\ NameRest(j) = NameRest(k)
        /\ name_max < max_filename_bytes


\* the restore commands of the entries planned into temp_dir, in planner
\* order: staging path, then local path
RECURSIVE CommandsOfRoot(_, _)
CommandsOfRoot(temp_dir, ops) ==
    IF ops = <<>> THEN <<>>
    ELSE (IF dirname(Head(ops).temp_path) = temp_dir
          THEN <<Head(ops).temp_path, Head(ops).local_path>> ELSE <<>>)
         \o CommandsOfRoot(temp_dir, Tail(ops))

LogOf(j) == join(library_temp_dirs[j].temp_dir, LOGNAME)

\* C29: once the restore logs are written, the log of every staging root
\* holds the restore commands of the entries planned into that root, in
\* planner order, and nothing else.
C29_LogContent ==
    pc = "move" =>
       \A j \in 1..Len(library_temp_dirs) :
          /\ IsFile(fs, LogOf(j))
          /\ fs[LogOf(j)].c =
                CommandsOfRoot(library_temp_dirs[j].temp_dir, move_operations)


\* the entries of the poll that the catalog still holds: by one of their ids
\* when they carry ids, by their directory when they carry none
HeldByCatalog ==
    {k \in 1..Len(poll_albums) :
        IF poll_albums[k].ids = <<>>
        THEN poll_albums[k].path \in poll_cat.dirs
        ELSE \E j \in 1..Len(poll_albums[k].ids) :
                poll_albums[k].ids[j] \in poll_cat.ids}

\* C30: a poll that reached the server counts as still visible exactly the
\* entries the catalog holds (one of their ids, or their directory when they
\* have no ids), and reports the removal exactly when it counts none.
C30_VisibleIffIdPresent ==
    (poll_ret # Unset /\ poll_cat.up) =>
        /\ poll_ret[2] = Cardinality(HeldByCatalog)
        /\ poll_ret[1] = (HeldByCatalog = {})


\* the root r is the path p itself or one of the directories above it
AtSegmentBoundary(p, r) == p = r \/ StartsWith(p, r \o <<S>>)

\* C31: a path is rewritten only when the catalog root of the mapping matches
\* it at a path-segment boundary; a path under a directory whose name merely
\* begins with the name of the root is returned unchanged.
C31_SegmentBoundaryMatch ==
    (/\ map_ret # Unset
     /\ map_mapping.present
     /\ ~AtSegmentBoundary(map_path, map_mapping.plex_root))
    => map_ret = map_path


\* the existing paths that are dev_path2 or a directory above it
ExistingAbove2 ==
    {q \in DOMAIN dev_fs : q = dev_path2 \/ Under(dev_path2, q)}

\* the nearest of them
Nearest2 == CHOOSE q \in ExistingAbove2 : \A r \in ExistingAbove2 : Len(r) <= Len(q)

\* C32: the device check answers true only when no stat call failed, the
\* first path exists, the second path has an existing ancestor (or exists),
\* and the first path and the nearest such ancestor are on the same device;
\* in every other case it answers false.
C32_DeviceCheckFailsClosed ==
    dev_ret # Unset =>
        (dev_ret = <<TRUE>>) =
            (/\ dev_flt = "none"
             /\ Exists(dev_fs, dev_path1)
             /\ ExistingAbove2 # {}
             /\ st_dev(dev_mounts, dev_path1) = st_dev(dev_mounts, Nearest2))

\* a stat call failed although both paths are there and on one device, and
\* the answer was false
C32_Witness ==
    /\ dev_ret = <<FALSE>>
    /\ dev_flt # "none"
    /\ Exists(dev_fs, dev_path1)
    /\ ExistingAbove2 # {}
    /\ ~Exists(dev_fs, dev_path2)
    /\ st_dev(dev_mounts, dev_path1) = st_dev(dev_mounts, Nearest2)


\* the staging directories of the input that were there before the run
PreExistingDirs == {td \in StagingDirsOfInput : Exists(fs0, td)}

\* C33: a staging directory that is there before the run is either removed
\* (it is empty) with the run going on, or reported as a conflict; planning
\* never ends with an unhandled error over it.
C33_LeftoverTwoOutcomes ==
    \A td \in PreExistingDirs :
        /\ <<"unhandled_error", td>> \notin reports
        /\ (\E j \in 1..Len(library_temp_dirs) : library_temp_dirs[j].temp_dir = td)
              => listdir(fs0, td) = {}


\* the recovery routine got past line 270 in a run in which no call of the
\* operating system failed and local and catalog paths are the same
RecoveryUnhindered ==
    /\ cl_bodies >= 1
    /\ faults = 0
    /\ ~path_mapping.present
    /\ \A r \in renames : r.ok

\* C34: once the recovery routine has taken the staging directories, it deals
\* with all of them, further signals or not: when the process has terminated
\* no entry is left at its staging path.
C34_RecoveryRunsToCompletion ==
    (pc = "terminated" /\ RecoveryUnhindered) =>
        \A i \in Entries : ~AlbumAt(LocalOf(i), TempOf(i))


\* C35: a run started over the same entries right after a run that completed
\* with every entry restored is not refused: it reports no conflict with a
\* staging directory.
C35_RerunNotRefused ==
    run = 2 => \A r \in reports : r[1] # "conflict"


\* the move loop ran over every planned entry and staged none
NothingStaged ==
    /\ no_dry_run
    /\ Len(move_operations) > 0
    /\ Len(results) = Len(move_operations)
    /\ Successes(results) = 0
    /\ pc # "move"

\* C36: when the move loop staged no entry, no poll is made and nothing is
\* restored by the main program; the run ends with status 0 unless a signal
\* arrives, and when the process has terminated without a signal the exit
\* hook has run the recovery routine once and no staging directory of the
\* run, lock record or restore log is left.
C36_NothingStagedCleansUp ==
    NothingStaged =>
        /\ polls = 0
        /\ restore_operations = <<>>
        /\ restore_results = <<>>
        /\ \A r \in renames : r.by # "restore"
        /\ <<"completed", <<>>>> \notin reports
        /\ (pc = "terminated" /\ signals = 0) =>
              /\ exit_status = 0
              /\ cl_calls = 1
              /\ cl_bodies = 1
              /\ \A td \in StagingDirsOfInput :
                    /\ ~Exists(fs, td)
                    /\ ~Exists(fs, join(td, LOCKNAME))
                    /\ ~Exists(fs, join(td, LOGNAME))
              /\ \A i \in Entries : AsFound(LocalOf(i))

C36_Witness ==
    /\ NothingStaged
    /\ pc = "terminated"
    /\ signals = 0
    /\ Len(move_operations) = 2
    /\ \E r \in renames : r.by = "move" /\ ~r.ok
    /\ \A td \in StagingDirsOfInput : ~Exists(fs, td) /\ Exists(fs, dirname(td))


\* the companion file that was beside the entry before the run is, with its
\* content, at its original path or beside the entry in the staging directory
CompanionKept(i) ==
    \E p \in {appledouble(LocalOf(i)), appledouble(TempOf(i))} :
        Exists(fs, p) /\ fs[p] = fs0[appledouble(LocalOf(i))]

\* C37: when the process has terminated after the recovery routine ran, the
\* companion file of every entry that had one still exists, at its original
\* path or in the staging directory.
C37_CompanionNeverDeleted ==
    (pc = "terminated" /\ cl_bodies >= 1) =>
        \A i \in Entries : HadCompanion(LocalOf(i)) => CompanionKept(i)

====
